---- MODULE Spec2Model ----
(***************************************************************************)
(* DNS Threat Simulator (dns_simulator.py): the profile derivation         *)
(* generate_client_profile, the DNSSimulator constructor, main's dispatch  *)
(* and the two sampling loops run_batch and run_continuous, together with  *)
(* the signal handlers that request a stop.                                *)
(*                                                                         *)
(* The SHA-256 digest of the client identifier is represented by the       *)
(* integer values of the hex segments the code reads from it.  Real-valued *)
(* quantities are kept as integers: intervals and probabilities in         *)
(* hundredths, preset weights in tenths of a percent.                      *)
(***************************************************************************)
EXTENDS Integers, Sequences, FiniteSets, TLC

\* ------------------------------------------------------------------ bounds
\* Queries a continuous run may issue before the model stops following it.
MaxQueries == 3
\* Largest -c/--count value drawn.
MaxCount == 3
\* Burst sizes followed from the low end of the range (the high end always is).
BurstSpread == 1

\* ------------------------------------------------------- small arithmetic
Max(a, b) == IF a >= b THEN a ELSE b
Min(a, b) == IF a <= b THEN a ELSE b

\* ------------------------------------------------------------ the digest
\* categories, in the order generate_client_profile lists them.
categories == <<"normal", "cdn", "suspicious", "dga", "malware", "ads", "tracking">>

Category == {categories[i] : i \in 1..Len(categories)}

CatIndex(c) == CHOOSE i \in 1..Len(categories) : categories[i] = c

\* A digest as the code reads it: seg[i] is int(ip_hash[(i-1)*4 : i*4], 16) for
\* the i-th category, boost is ip_hash[28:32], sec is ip_hash[32:36], count is
\* ip_hash[36:38], coin is ip_hash[38:40], interval is ip_hash[40:44] and burst
\* is ip_hash[44:48].
MkDigest(s, b, sc, n, c, iv, bu) ==
    [seg |-> s, boost |-> b, sec |-> sc, count |-> n, coin |-> c,
     interval |-> iv, burst |-> bu]

\* hashlib.sha256("192.168.1.1"), "192.168.1.4" and "192.168.1.15".
Digest_192_168_1_1 ==
    MkDigest(<<50667, 23116, 51050, 23771, 5863, 39012, 47564>>,
             53868, 13651, 240, 195, 38608, 41499)
Digest_192_168_1_4 ==
    MkDigest(<<23115, 21593, 38550, 26744, 1684, 4935, 36833>>,
             34207, 8035, 160, 72, 271, 37740)
Digest_192_168_1_15 ==
    MkDigest(<<49161, 28285, 62356, 42682, 24141, 19898, 57774>>,
             5636, 47599, 52, 45, 31430, 40579)

KnownDigests == {Digest_192_168_1_1, Digest_192_168_1_4, Digest_192_168_1_15}

\* Segment values the derivation is explored over: 16-bit values whose
\* residues mod 100 are 0, 45 and 90 (a floor case, a mid weight and a weight
\* above both caps), so that ties and capped boosts occur.
SegValues == {0, 1045, 2090}
\* Residues mod 30 are 0 and 23.
BoostValues == {0, 1013}
\* Residues mod 15 are 0 and 14.
SecValues == {0, 1019}
\* 8-bit values of either parity.
CountValues == {0, 255}
CoinValues == {72, 195}
\* Residues (mod 20, mod 50) are (0, 0) and (19, 49).
SeedValues == {0, 65499}

DigestSpace ==
    {MkDigest(s, b, sc, n, c, iv, bu) :
        s \in [1..Len(categories) -> SegValues], b \in BoostValues,
        sc \in SecValues, n \in CountValues, c \in CoinValues,
        iv \in SeedValues, bu \in SeedValues}

\* ------------------------------------------------ generate_client_profile
\* weights[cat] = max(1, int(hex_segment, 16) % 100)
base_weights(d) ==
    [c \in Category |-> Max(1, d.seg[CatIndex(c)] % 100)]

\* max(weights, key=weights.get): the first key, in insertion order, that
\* carries the largest value.
max_key(w) ==
    categories[CHOOSE i \in 1..Len(categories) :
        /\ \A j \in 1..Len(categories) : w[categories[j]] <= w[categories[i]]
        /\ \A j \in 1..(i - 1) : w[categories[j]] < w[categories[i]]]

\* sorted(weights.items(), key=lambda x: x[1], reverse=True): descending by
\* weight, equal weights keeping insertion order (the sort is stable).
Before(w, a, b) ==
    \/ w[a] > w[b]
    \/ w[a] = w[b] /\ CatIndex(a) < CatIndex(b)

sorted_cats(w) ==
    [k \in 1..Len(categories) |->
        CHOOSE c \in Category :
            Cardinality({o \in Category : Before(w, o, c)}) = k - 1]

\* weights[dominant_cat] = min(80, weights[dominant_cat] + boost)
boost_dominant(w, dom, d) ==
    [w EXCEPT ![dom] = Min(80, @ + (20 + (d.boost % 30)))]

\* secondary_cat = sorted_cats[1][0]
secondary_of(w) == sorted_cats(w)[2]

\* weights[secondary_cat] = min(60, weights[secondary_cat] + sec_boost)
boost_secondary(w, sec, d) ==
    [w EXCEPT ![sec] = Min(60, @ + (10 + (d.sec % 15)))]

\* suppress_count = 1 + (int(ip_hash[36:38], 16) % 2)
suppress_count(d) == 1 + (d.count % 2)

\* The suppression loop from category i on; st carries the weights and the
\* suppressed list built so far.
RECURSIVE suppress_from(_, _, _, _, _)
suppress_from(i, st, dom, sec, d) ==
    IF i > Len(categories) THEN st
    ELSE LET cat == categories[i]
             hit == /\ cat \notin {dom, sec}
                    /\ Len(st.suppressed) < suppress_count(d)
                    /\ d.coin % 2 = 0
         IN  suppress_from(i + 1,
                 IF hit
                 THEN [weights |-> [st.weights EXCEPT ![cat] = Max(1, @ \div 4)],
                       suppressed |-> Append(st.suppressed, cat)]
                 ELSE st,
                 dom, sec, d)

\* dga_complexity from the dominant category.
dga_complexity_of(dom) ==
    IF dom \in {"dga", "malware", "suspicious"} THEN "high"
    ELSE IF dom \in {"normal", "cdn"} THEN "low"
    ELSE "medium"

\* query_interval in hundredths of a second.
query_interval_of(d) ==
    LET min_interval == 5 + (d.interval % 20)
    IN  <<min_interval, min_interval + 30 + (d.interval % 50)>>

\* burst_probability in hundredths.
burst_probability_of(d) == 5 + (d.burst % 20)

generate_client_profile(d) ==
    LET w0  == base_weights(d)
        dom == max_key(w0)
        w1  == boost_dominant(w0, dom, d)
        sec == secondary_of(w1)
        w2  == boost_secondary(w1, sec, d)
        st  == suppress_from(1, [weights |-> w2, suppressed |-> <<>>], dom, sec, d)
    IN  [profile_hash |-> <<d.seg[1], d.seg[2], d.seg[3]>>,
         dominant |-> dom,
         secondary |-> sec,
         suppressed |-> st.suppressed,
         weights |-> st.weights,
         query_interval |-> query_interval_of(d),
         burst_probability |-> burst_probability_of(d),
         burst_size |-> <<5, 25>>,
         dga_complexity |-> dga_complexity_of(dom)]

\* ------------------------------------------------------------- the state
VARIABLES
    args,             \* parsed command line: profile, count, duration, show_profile
    digest,           \* SHA-256 segments of the client identifier
    pc,               \* position of the main thread
    running,          \* DNSSimulator.running, the stop flag
    stats,            \* DNSSimulator.stats
    client_profile,   \* DNSSimulator.client_profile
    profile_config,   \* DNSSimulator.profile_config
    alarm,            \* SIGALRM: "none", "armed" or "fired"
    i,                \* run_batch's loop index
    burst_size,       \* size drawn for the current burst
    burst_i,          \* iterations of the current burst completed
    ctx,              \* loop the query in progress belongs to
    category,         \* category selected for the query in progress
    send_calls,       \* calls to send_query so far
    last_ok,          \* what the latest send_query returned
    sends_after_stop  \* calls to send_query made while running was False

vars == <<args, digest, pc, running, stats, client_profile, profile_config,
          alarm, i, burst_size, burst_i, ctx, category, send_calls, last_ok,
          sends_after_stop>>

\* Python's None.
None == [none |-> TRUE]

\* The names argparse accepts for -p/--profile.
ProfileChoices == {"auto", "enterprise", "infected", "developer", "mixed"}

\* The constructor takes any string; "bogus" stands for a name that is not in
\* the preset table.
ProfileNames == ProfileChoices \cup {"bogus"}

StatKeys == {"total_queries"} \cup Category

\* self.stats as __init__ builds it.
ZeroStats == [k \in StatKeys |-> 0]

\* ------------------------------------------------------------ the presets
\* A preset's weights are written in tenths (1.5 is 15) to stay integral;
\* select_category divides by the sum, so the scale of a map is immaterial.
Weights(normal, cdn, suspicious, dga, malware, ads, tracking) ==
    [c \in Category |->
        CASE c = "normal" -> normal
          [] c = "cdn" -> cdn
          [] c = "suspicious" -> suspicious
          [] c = "dga" -> dga
          [] c = "malware" -> malware
          [] c = "ads" -> ads
          [] c = "tracking" -> tracking]

profiles ==
    [enterprise |->
        [weights |-> Weights(600, 250, 15, 3, 2, 80, 50),
         query_interval |-> <<10, 50>>, burst_probability |-> 5,
         burst_size |-> <<5, 15>>, dga_complexity |-> "low"],
     infected |->
        [weights |-> Weights(200, 50, 300, 350, 80, 10, 10),
         query_interval |-> <<5, 30>>, burst_probability |-> 20,
         burst_size |-> <<10, 50>>, dga_complexity |-> "high"],
     developer |->
        [weights |-> Weights(450, 300, 50, 30, 20, 50, 100),
         query_interval |-> <<20, 100>>, burst_probability |-> 15,
         burst_size |-> <<3, 20>>, dga_complexity |-> "medium"],
     mixed |->
        [weights |-> Weights(400, 200, 150, 100, 50, 50, 50),
         query_interval |-> <<10, 80>>, burst_probability |-> 10,
         burst_size |-> <<5, 25>>, dga_complexity |-> "medium"]]

\* A fallback entry whose burst range is upside down.
_get_predefined_profile_degenerate(profile) ==
    IF profile \in DOMAIN profiles THEN profiles[profile]
    ELSE [profiles["mixed"] EXCEPT !.burst_size = <<25, 5>>]

\* profiles.get(profile, profiles["mixed"])
_get_predefined_profile(profile) ==
    IF profile \in DOMAIN profiles THEN profiles[profile] ELSE profiles["mixed"]

\* The profile_config __init__ builds from an auto-generated client profile.
auto_config(cp) ==
    [weights |-> cp.weights,
     query_interval |-> cp.query_interval,
     burst_probability |-> cp.burst_probability,
     burst_size |-> cp.burst_size,
     dga_complexity |-> cp.dga_complexity]

\* ----------------------------------------------------------- the sampler
\* select_category: random.choices over the weight map can return every key
\* of positive weight.
select_category(config) ==
    {c \in DOMAIN config.weights : config.weights[c] > 0}

\* A draw that can overshoot the upper end by one.
randint_overshoot(lo, hi) == lo..(hi + 1)

\* random.randint(lo, hi): both ends included.
randint(lo, hi) == lo..hi

\* The draws of a set that are followed: its BurstSpread smallest values and
\* its largest one.
Followed(S) ==
    {s \in S : \/ Cardinality({t \in S : t < s}) < BurstSpread
               \/ \A t \in S : t <= s}

\* random.random() < burst_probability, with random() in [0, 1): the outcomes
\* the draw can have.
burst_draw(config) ==
    {b \in BOOLEAN : IF b THEN config.burst_probability > 0
                          ELSE config.burst_probability < 100}

\* A send_query that invokes dig a second time when the first attempt fails.
send_query_retrying(n, ok) == IF ok THEN n + 1 ELSE n + 2

\* send_query: one dig invocation (+tries=1, no loop), whether it returns True
\* or False (ok); the number of invocations made so far goes from n to n + 1.
send_query(n, ok) == n + 1

\* A burst loop that never looks at the stop flag.
burst_continues_unchecked(k, size, run) == k < size

\* for _ in range(burst_size): if not self.running: break
\* Does the burst go on to its next query?
burst_continues(k, size, run) == k < size /\ run

\* A batch loop that runs one iteration too many.
batch_continues_inclusive(k, count, run) == k <= count /\ run

\* for i in range(count): if not self.running: break
\* Does the batch go on to its next query?
batch_continues(k, count, run) == k < count /\ run

\* main: is the SIGALRM timer set up for this run?
arms_alarm(a) == a.count <= 0 /\ a.duration > 0

\* ---------------------------------------------------------------- Init
\* -d/--duration: unlimited, or some number of seconds.
Durations == {0, 30}

ArgSpace ==
    [profile : ProfileNames, count : 0..MaxCount, duration : Durations,
     show_profile : BOOLEAN]

\* The profiles a run is followed under: the derived one, the preset with
\* fractional weights, the preset with the shortest bursts, and an unknown name.
RunProfiles == {"auto", "enterprise", "developer", "bogus"}

Rest ==
    /\ pc = "main"
    /\ running = TRUE
    /\ stats = ZeroStats
    /\ client_profile = None
    /\ profile_config = None
    /\ alarm = "none"
    /\ i = 0
    /\ burst_size = 0
    /\ burst_i = 0
    /\ ctx = "none"
    /\ category = "none"
    /\ send_calls = 0
    /\ last_ok = TRUE
    /\ sends_after_stop = 0

\* A run of the simulator for the client 192.168.1.1.
Init ==
    /\ args \in {a \in ArgSpace : ~a.show_profile /\ a.profile \in RunProfiles}
    /\ digest = Digest_192_168_1_1
    /\ Rest

\* --show-profile over the explored digests.
InitProfile ==
    /\ args \in {a \in ArgSpace :
                    a.show_profile /\ a.profile = "auto" /\ a.count = 0
                    /\ a.duration = 0}
    /\ digest \in DigestSpace \cup KnownDigests
    /\ Rest

\* ----------------------------------------------------------------- main
\* main with --show-profile: derive the profile, print it and exit.
ShowProfile ==
    /\ pc = "main"
    /\ args.show_profile
    /\ client_profile' = generate_client_profile(digest)
    /\ pc' = "exited"
    /\ UNCHANGED <<args, digest, running, stats, profile_config, alarm, i,
                   burst_size, burst_i, ctx, category, send_calls, last_ok,
                   sends_after_stop>>

\* DNSSimulator.__init__
Construct ==
    /\ pc = "main"
    /\ ~args.show_profile
    /\ running' = TRUE
    /\ stats' = ZeroStats
    /\ IF args.profile = "auto"
       THEN /\ client_profile' = generate_client_profile(digest)
            /\ profile_config' = auto_config(generate_client_profile(digest))
       ELSE /\ client_profile' = None
            /\ profile_config' = _get_predefined_profile(args.profile)
    /\ pc' = "dispatch"
    /\ UNCHANGED <<args, digest, alarm, i, burst_size, burst_i, ctx, category,
                   send_calls, last_ok, sends_after_stop>>

\* main, after construction: run_batch for a positive count, otherwise
\* run_continuous, with SIGALRM set up first when a duration is given.
Dispatch ==
    /\ pc = "dispatch"
    /\ IF args.count > 0
       THEN /\ pc' = "batch_loop"
            /\ i' = 0
       ELSE /\ pc' = "cont_loop"
            /\ i' = i
    /\ alarm' = IF arms_alarm(args) THEN "armed" ELSE alarm
    /\ UNCHANGED <<args, digest, running, stats, client_profile, profile_config,
                   burst_size, burst_i, ctx, category, send_calls, last_ok,
                   sends_after_stop>>

\* ------------------------------------------------------------ run_batch
\* The head of run_batch's loop: leave when the range is used up or running is
\* False, otherwise select the next query.
BatchIter ==
    /\ pc = "batch_loop"
    /\ IF batch_continues(i, args.count, running)
       THEN /\ category' \in select_category(profile_config)
            /\ ctx' = "batch"
            /\ pc' = "send"
       ELSE /\ pc' = "print_stats"
            /\ UNCHANGED <<category, ctx>>
    /\ UNCHANGED <<args, digest, running, stats, client_profile, profile_config,
                   alarm, i, burst_size, burst_i, send_calls, last_ok,
                   sends_after_stop>>

\* The progress line and the pause that end an iteration of run_batch.
BatchSleep ==
    /\ pc = "batch_sleep"
    /\ i' = i + 1
    /\ pc' = "batch_loop"
    /\ UNCHANGED <<args, digest, running, stats, client_profile, profile_config,
                   alarm, burst_size, burst_i, ctx, category, send_calls,
                   last_ok, sends_after_stop>>

\* ------------------------------------------------- one query, in any loop
\* self.send_query(domain, qtype); what it returns is dropped by the caller.
SendQuery ==
    /\ pc = "send"
    /\ \E ok \in BOOLEAN :
         /\ last_ok' = ok
         /\ send_calls' = send_query(send_calls, ok)
    /\ sends_after_stop' = IF running THEN sends_after_stop
                                      ELSE sends_after_stop + 1
    /\ pc' = "inc_total"
    /\ UNCHANGED <<args, digest, running, stats, client_profile, profile_config,
                   alarm, i, burst_size, burst_i, ctx, category>>

\* self.stats["total_queries"] += 1
IncTotal ==
    /\ pc = "inc_total"
    /\ stats' = [stats EXCEPT !["total_queries"] = @ + 1]
    /\ pc' = "inc_cat"
    /\ UNCHANGED <<args, digest, running, client_profile, profile_config, alarm,
                   i, burst_size, burst_i, ctx, category, send_calls, last_ok,
                   sends_after_stop>>

\* self.stats[category] = self.stats.get(category, 0) + 1; the iteration's
\* category is dead from here on.
IncCat ==
    /\ pc = "inc_cat"
    /\ stats' = [stats EXCEPT ![category] = @ + 1]
    /\ pc' = CASE ctx = "batch" -> "batch_sleep"
               [] ctx = "burst" -> "burst_sleep"
               [] OTHER -> "cont_log"
    /\ ctx' = "none"
    /\ category' = "none"
    /\ UNCHANGED <<args, digest, running, client_profile, profile_config, alarm,
                   i, burst_size, burst_i, send_calls, last_ok,
                   sends_after_stop>>

\* ------------------------------------------------------- run_continuous
\* The head of run_continuous's loop: leave when running is False, otherwise
\* draw for a burst and either draw its size or select a single query.
ContLoop ==
    /\ pc = "cont_loop"
    /\ IF ~running
       THEN /\ pc' = "print_stats"
            /\ UNCHANGED <<burst_size, burst_i, ctx, category>>
       ELSE /\ send_calls < MaxQueries
            /\ \E b \in burst_draw(profile_config) :
                 IF b
                 THEN /\ burst_size' \in
                            Followed(randint(profile_config.burst_size[1],
                                             profile_config.burst_size[2]))
                      /\ burst_i' = 0
                      /\ pc' = "burst_loop"
                      /\ UNCHANGED <<ctx, category>>
                 ELSE /\ category' \in select_category(profile_config)
                      /\ ctx' = "normal"
                      /\ pc' = "send"
                      /\ UNCHANGED <<burst_size, burst_i>>
    /\ UNCHANGED <<args, digest, running, stats, client_profile, profile_config,
                   alarm, i, send_calls, last_ok, sends_after_stop>>

\* The head of the burst loop: leave when the range is used up or running is
\* False, otherwise select the next query of the burst.
BurstIter ==
    /\ pc = "burst_loop"
    /\ IF burst_continues(burst_i, burst_size, running)
       THEN /\ send_calls < MaxQueries
            /\ category' \in select_category(profile_config)
            /\ ctx' = "burst"
            /\ pc' = "send"
       ELSE /\ pc' = "cont_log"
            /\ UNCHANGED <<category, ctx>>
    /\ UNCHANGED <<args, digest, running, stats, client_profile, profile_config,
                   alarm, i, burst_size, burst_i, send_calls, last_ok,
                   sends_after_stop>>

\* time.sleep(random.uniform(0.01, 0.05)) ending an iteration of the burst.
BurstSleep ==
    /\ pc = "burst_sleep"
    /\ burst_i' = burst_i + 1
    /\ pc' = "burst_loop"
    /\ UNCHANGED <<args, digest, running, stats, client_profile, profile_config,
                   alarm, i, burst_size, ctx, category, send_calls, last_ok,
                   sends_after_stop>>

\* The progress line every 100 queries and the interval pause; a burst's
\* locals are dead from here on.
ContLog ==
    /\ pc = "cont_log"
    /\ pc' = "cont_loop"
    /\ burst_size' = 0
    /\ burst_i' = 0
    /\ UNCHANGED <<args, digest, running, stats, client_profile, profile_config,
                   alarm, i, ctx, category, send_calls, last_ok,
                   sends_after_stop>>

\* self._print_stats() ending either loop.
PrintStats ==
    /\ pc = "print_stats"
    /\ pc' = "done"
    /\ UNCHANGED <<args, digest, running, stats, client_profile, profile_config,
                   alarm, i, burst_size, burst_i, ctx, category, send_calls,
                   last_ok, sends_after_stop>>

\* -------------------------------------------------------------- signals
\* The simulator exists and the process has not ended.
Alive == pc \notin {"main", "done", "exited"}

\* _signal_handler on SIGINT or SIGTERM: request the stop, print, sys.exit(0);
\* the interrupted loop's locals go with its frame.
SignalHandler ==
    /\ Alive
    /\ running' = FALSE
    /\ pc' = "exited"
    /\ i' = 0
    /\ burst_size' = 0
    /\ burst_i' = 0
    /\ ctx' = "none"
    /\ category' = "none"
    /\ UNCHANGED <<args, digest, stats, client_profile, profile_config, alarm,
                   send_calls, last_ok, sends_after_stop>>

\* timeout_handler on SIGALRM, once the duration has elapsed.
TimeoutHandler ==
    /\ alarm = "armed"
    /\ Alive
    /\ running' = FALSE
    /\ alarm' = "fired"
    /\ UNCHANGED <<args, digest, pc, stats, client_profile, profile_config, i,
                   burst_size, burst_i, ctx, category, send_calls, last_ok,
                   sends_after_stop>>

\* ------------------------------------------------------- specifications
Next ==
    \/ Construct
    \/ Dispatch
    \/ BatchIter
    \/ BatchSleep
    \/ SendQuery
    \/ IncTotal
    \/ IncCat
    \/ ContLoop
    \/ BurstIter
    \/ BurstSleep
    \/ ContLog
    \/ PrintStats
    \/ SignalHandler
    \/ TimeoutHandler

Spec == Init /\ [][Next]_vars

NextProfile == ShowProfile

SpecProfile == InitProfile /\ [][NextProfile]_vars

\* ------------------------------------------------------------ properties
\* A profile has been derived for the client.
HasProfile == "dominant" \in DOMAIN client_profile

\* C2: in the derived profile the weight of the category reported as dominant
\* is at least the weight of every other category of the weight map.
DominantIsMax ==
    HasProfile =>
        \A c \in Category :
            client_profile.weights[c] <= client_profile.weights[client_profile.dominant]

\* C3: the suppressed list of the derived profile holds exactly one or exactly
\* two categories, none of them the dominant or the secondary category.
SuppressedOneOrTwo ==
    HasProfile =>
        /\ Len(client_profile.suppressed) \in {1, 2}
        /\ \A k \in 1..Len(client_profile.suppressed) :
              client_profile.suppressed[k] \notin
                  {client_profile.dominant, client_profile.secondary}

\* C10: the secondary category of the derived profile is a different category
\* from the dominant one.
SecondaryDiffers ==
    HasProfile => client_profile.secondary # client_profile.dominant

\* C4: a query is started only by a step that finds running True, in the batch
\* loop, in the continuous loop and inside a burst; a burst whose head finds
\* running False is left without another query; and at most one call to
\* send_query (the query in progress when the stop was requested) is made
\* after running became False.
StopIsCooperative ==
    [][/\ (pc' = "send" /\ pc # "send") => running
       /\ (pc = "burst_loop" /\ ~running /\ pc' # pc) =>
              /\ pc' \in {"cont_log", "exited"}
              /\ send_calls' = send_calls
       /\ sends_after_stop' <= 1]_vars

\* C4 witness: the alarm requested the stop inside a burst and the burst was
\* left with part of its drawn size unused.
StoppedMidBurst ==
    /\ pc = "cont_log"
    /\ ~running
    /\ alarm = "fired"
    /\ 0 < burst_i
    /\ burst_i < burst_size

\* C5: a counted run never sends more than count queries, and one that ends
\* without a stop request has sent and counted exactly count queries.
BatchSendsExactlyCount ==
    args.count > 0 =>
        /\ send_calls <= args.count
        /\ stats["total_queries"] <= args.count
        /\ (pc = "done" /\ running) =>
              /\ send_calls = args.count
              /\ stats["total_queries"] = args.count

\* C5 witness: a counted run of more than one query has finished.
BatchCompleted ==
    /\ args.count > 1
    /\ pc = "done"
    /\ running
    /\ stats["total_queries"] = args.count

\* C6: whenever a run has been started with a duration above 0, in either run
\* mode, the deferred cancellation has been scheduled.
DurationAlwaysArmsAlarm ==
    (args.duration > 0 /\ pc \notin {"main", "dispatch"}) => alarm # "none"

\* C7: a call to send_query is a single attempt, leaves running alone and
\* leads to the counting steps; after a failed attempt total_queries and the
\* category counter go up by one as after a success and the loop goes on; one
\* query is counted per call to send_query.
FailedQueryCounted ==
    [][/\ send_calls' # send_calls =>
              /\ send_calls' = send_calls + 1
              /\ pc' = "inc_total"
              /\ running' = running
       /\ (pc = "inc_total" /\ ~last_ok /\ pc' \notin {pc, "exited"}) =>
              /\ pc' = "inc_cat"
              /\ stats'["total_queries"] = stats["total_queries"] + 1
              /\ running' = running
       /\ (pc = "inc_cat" /\ ~last_ok /\ pc' \notin {pc, "exited"}) =>
              /\ pc' \in {"batch_sleep", "burst_sleep", "cont_log"}
              /\ stats'[category] = stats[category] + 1
              /\ running' = running
       /\ pc' # "exited" =>
              send_calls' = stats'["total_queries"]
                              + (IF pc' = "inc_total" THEN 1 ELSE 0)]_vars

\* C7 witness: the latest query failed, it has been counted, and the loop has
\* gone on to the next query.
ProceededAfterFailure ==
    /\ pc = "send"
    /\ ~last_ok
    /\ running
    /\ send_calls >= 1
    /\ stats["total_queries"] = send_calls

\* The profile name is neither "auto" nor the name of a preset.
UnknownProfile == args.profile \notin (DOMAIN profiles \cup {"auto"})

\* A usable configuration: positive weights, positive ordered interval
\* bounds, an ordered burst range of at least 1.
ValidProfile(config) ==
    /\ DOMAIN config.weights # {}
    /\ \A c \in DOMAIN config.weights : config.weights[c] > 0
    /\ config.query_interval[1] > 0
    /\ config.query_interval[1] <= config.query_interval[2]
    /\ config.burst_size[1] >= 1
    /\ config.burst_size[1] <= config.burst_size[2]

BurstSent ==
    burst_i + (IF pc = "burst_sleep" \/ (ctx = "burst" /\ pc \in {"inc_total", "inc_cat"})
               THEN 1 ELSE 0)

\* C9: the size drawn for a burst lies within the profile's burst_size range,
\* ends included, and the queries sent in the burst never exceed that size.
BurstWithinRange ==
    burst_size # 0 =>
        /\ burst_size >= profile_config.burst_size[1]
        /\ burst_size <= profile_config.burst_size[2]
        /\ BurstSent <= burst_size

\* C9 witness: a burst has run to the end of its drawn size.
BurstExhausted ==
    /\ pc = "cont_log"
    /\ burst_size > 0
    /\ burst_i = burst_size
    /\ send_calls >= burst_size

\* The sum of the seven per-category counters.
RECURSIVE CategorySum(_, _)
CategorySum(st, k) ==
    IF k = 0 THEN 0 ELSE st[categories[k]] + CategorySum(st, k - 1)

\* The statistics are being printed: _print_stats at the end of run_batch or
\* run_continuous, or from _signal_handler, which exits right after.
StatsPrinted == pc \in {"print_stats", "exited"}

\* C11: whenever the statistics are printed, at the end of either loop or from
\* the SIGINT/SIGTERM handler interrupting the loop at any point,
\* total_queries equals the sum of the seven per-category counters.
StatsConsistentWhenPrinted ==
    StatsPrinted => stats["total_queries"] = CategorySum(stats, Len(categories))

====
